---- MODULE Spec2Model ----
(***************************************************************************)
(* Model of the solar dump/restore pipeline and of the reindex command:    *)
(* Exporter (src/solar/api/export.py), Importer (src/solar/import_.py),    *)
(* ApiEngine (src/solar/base.py) and reindex_collection (src/solar/cli.py).*)
(* The cluster is the environment: it answers every request with a status  *)
(* and, on status 200, applies the request.                                *)
(***************************************************************************)
EXTENDS Integers, Sequences, FiniteSets, TLC

VARIABLES
    cmd,            \* the command being run: "export", "import", "reindex"
    config_path,    \* reindex: the --cpath argument, << >> for None
    config_name,    \* reindex: the --cname argument, << >> for None
    not_found,      \* reindex: "Collection ... not found" has been printed
    cfg_dest,       \* Exporter.export_config: path
    configs_path,   \* Importer.import_configs: configs_path
    cfg_name,       \* Importer.import_configs: name, << >> for None
    cfg_overwrite,  \* Importer.import_configs: overwrite
    id_col,         \* ApiEngine.id_col: the name of the id field
    pc,             \* position of the single thread of control
    raised,         \* TRUE once an exception has propagated out of the command
    stdout,         \* reindex: the steps whose success message has been printed
    clients,        \* the HTTP sessions of the importer and of the exporter
    coll_exists,    \* cluster: the collection exists
    coll_docs,      \* cluster: ids of the collection's documents, in index order
    coll_config,    \* cluster: name of the configuration the collection is bound to
    configsets,     \* cluster: configuration name -> file tree
    files,          \* local filesystem: path -> content
    requests,       \* every request issued so far, with the status it got
    batch_size,     \* Exporter: rows per window
    ids,            \* Exporter._export_to_path: result of the id scan
    from_idx,       \* Exporter._export_to_path: loop variable
    data_docs,      \* Exporter._export_to_path: data["docs"]
    cfg_stack,      \* Exporter._parse_tree: the calls in progress, innermost first
    imp_path,       \* Importer.import_data: path
    imp_batch,      \* Importer.import_data: batch_size
    overwrite,      \* Importer.import_data: overwrite
    upload_docs,    \* Importer.import_data: upload_docs
    post_idx,       \* Importer.import_data: documents already handed to a batch
    answers,        \* what the operator typed at each input() prompt, in order
    self_collection, \* Importer.collection, "None" for None
    in_flight,      \* solrdumper: the windows whose request awaits its answer
    written         \* what another client of the cluster wrote, and when

paramVars == <<cfg_dest, configs_path, cfg_name, cfg_overwrite, id_col>>
cmdVars == <<cmd, config_path, config_name, not_found, paramVars>>
ctlVars == <<cmdVars, answers, written>>
clusterVars == <<coll_exists, coll_docs, coll_config, configsets>>
exportVars == <<batch_size, ids, from_idx, data_docs, in_flight>>
importVars == <<imp_path, imp_batch, overwrite, upload_docs, post_idx, self_collection>>
vars == <<ctlVars, pc, raised, stdout, clients, clusterVars, files, requests,
          exportVars, cfg_stack, importVars>>

----------------------------------------------------------------------------
(* Bounds *)

MaxId == 3          \* document ids are 1..MaxId
MaxBatch == 3       \* batch sizes tried by the export and import specifications
MaxSnap == 3        \* documents in a snapshot file given to import
MaxWrites == 2      \* writes of the other client during one import

DocIds == 1..MaxId

----------------------------------------------------------------------------
(* Helpers *)

Min(a, b) == IF a < b THEN a ELSE b

SetMax(S) == CHOOSE m \in S : \A x \in S : x <= m

Range(s) == {s[i] : i \in 1..Len(s)}

\* All orderings of the elements of S
Perms(S) == {s \in [1..Cardinality(S) -> S] : \A i, j \in DOMAIN s : i # j => s[i] # s[j]}

NoDup(s) == \A i, j \in 1..Len(s) : i # j => s[i] # s[j]

IsPrefix(p, q) == Len(p) <= Len(q) /\ SubSeq(q, 1, Len(p)) = p

----------------------------------------------------------------------------
(* JSON values: every value carries its Python type *)

Val(x) == [t |-> "val", v |-> x]
List(s) == [t |-> "list", v |-> s]
Dict(f) == [t |-> "dict", v |-> f]

\* doc[self.id_col]
DocId(doc) == doc.v[id_col].v

IdsOf(docs) == [i \in 1..Len(docs) |-> DocId(docs[i])]

\* The document the cluster returns for id i: its id and the version the
\* cluster assigned to it
StoredDoc(i) == Dict((id_col :> Val(i)) @@ ("_version_" :> Val(i)))

----------------------------------------------------------------------------
(* Transport: ApiEngine.api_request *)

\* What the cluster may answer: a status and, on 200, a body that parses or not
Responses == {[status |-> 200, body |-> "json"], [status |-> 200, body |-> "garbled"],
              [status |-> 401, body |-> "text"], [status |-> 500, body |-> "text"]}

\* Responses to a request whose body the client does not parse
PlainResponses == {r \in Responses : r.body # "garbled"}

\* api_request: 401 raises, any other status but 200 gives None, 200 gives the
\* text, or None when the body is not UTF-8 (UnicodeDecodeError)
api_request(r) ==
    IF r.status = 401 THEN "raise"
    ELSE IF r.status # 200 THEN "None"
    ELSE IF r.body = "undecodable" THEN "None"
    ELSE "text"

\* orjson.loads / json.loads on the returned text
loads(r) == IF r.body = "json" THEN "parsed" ELSE "raise"

Req(op, arg, r) == [op |-> op, arg |-> arg, status |-> r.status, body |-> r.body]

\* A request with the collection of its URL: f"/solr/{self.collection}/update"
ReqTo(op, c, arg, r) ==
    [op |-> op, arg |-> arg, status |-> r.status, body |-> r.body, to |-> c]

\* The key _fetch_ids subscripts each document of the scan answer with
scan_key == "id"

\* ids = [i["id"] for i in body["docs"]]: the answer was asked for with
\* fl = id_col, so each of its documents holds the field id_col and no other;
\* subscripting one with a key it lacks is a KeyError
scan_ids(found, f) == IF found # << >> /\ f # scan_key THEN "KeyError" ELSE "ids"

----------------------------------------------------------------------------
(* Cluster behaviour *)

RECURSIVE SortDesc(_)
SortDesc(S) == IF S = {} THEN <<>> ELSE <<SetMax(S)>> \o SortDesc(S \ {SetMax(S)})

\* /export handler: the ids of the matching documents, sort "id desc"
ExportHandler(docs) == SortDesc(Range(docs))

\* /select handler: rows documents from offset start, no sort parameter given,
\* so in the cluster's own (index) order
SelectHandler(docs, start, rows) ==
    LET page == SubSeq(docs, start + 1, Min(start + rows, Len(docs)))
    IN  [i \in 1..Len(page) |-> StoredDoc(page[i])]

\* /update handler: every posted document replaces the stored one of the same
\* id, or is added
RECURSIVE UpdateHandler(_, _)
UpdateHandler(docs, posted) ==
    IF posted = <<>> THEN docs
    ELSE UpdateHandler(Append(SelectSeq(docs, LAMBDA d : d # DocId(Head(posted))),
                              DocId(Head(posted))),
                       Tail(posted))

\* A request against a collection that does not exist cannot be answered 200
CollResponses(R) == IF coll_exists THEN R ELSE {r \in R : r.status # 200}

----------------------------------------------------------------------------
(* Local files *)

today_str == "date"
now_str == "now"

collection == "C"

\* A request on /solr/{c}/...: the cluster holds no collection but the one
\* called collection
ResponsesOf(c, R) == IF c = collection THEN CollResponses(R) ELSE {r \in R : r.status # 200}

\* f"{self.collection}_{today_str}.json" and f"{collection_name}.json"
DatedName(c) == <<c, today_str>>
PlainName(c) == <<c>>

base_url == "url"

\* data = dict(collection=self.collection, solr_url=self.base_url,
\*             date=today_str, docs=[]) with the fetched documents in docs
snapshot_data(c, docs) ==
    Dict(("collection" :> Val(c)) @@ ("solr_url" :> Val(base_url))
         @@ ("date" :> Val(today_str)) @@ ("docs" :> List(docs)))

\* dumps that writes the elements of every array last to first
RECURSIVE dumps_reversed(_)
dumps_reversed(x) ==
    IF x.t = "val" THEN [j |-> "scalar", s |-> x.v]
    ELSE IF x.t = "list"
    THEN [j |-> "array",
          s |-> [i \in 1..Len(x.v) |-> dumps_reversed(x.v[Len(x.v) + 1 - i])]]
    ELSE LET keys == CHOOSE order \in Perms(DOMAIN x.v) : TRUE
         IN  [j |-> "object",
              s |-> [i \in 1..Len(keys) |-> [k |-> keys[i], x |-> dumps_reversed(x.v[keys[i]])]]]

\* orjson.dumps(data): the JSON text of a value, a scalar, an array of texts
\* or an object of members, each a key and a text
RECURSIVE dumps(_)
dumps(x) ==
    IF x.t = "val" THEN [j |-> "scalar", s |-> x.v]
    ELSE IF x.t = "list"
    THEN [j |-> "array", s |-> [i \in 1..Len(x.v) |-> dumps(x.v[i])]]
    ELSE LET keys == CHOOSE order \in Perms(DOMAIN x.v) : TRUE
         IN  [j |-> "object",
              s |-> [i \in 1..Len(keys) |-> [k |-> keys[i], x |-> dumps(x.v[keys[i]])]]]

\* json.load(f): the value of a JSON text; of two members of an object with
\* the same key the later one counts
RECURSIVE json_load(_)
json_load(text) ==
    IF text.j = "scalar" THEN Val(text.s)
    ELSE IF text.j = "array"
    THEN List([i \in 1..Len(text.s) |-> json_load(text.s[i])])
    ELSE Dict([key \in {text.s[i].k : i \in 1..Len(text.s)} |->
                 json_load(text.s[SetMax({i \in 1..Len(text.s) : text.s[i].k = key})].x)])

\* The content of the file _export_to_path writes
Snapshot(c, docs) == dumps(snapshot_data(c, docs))

\* _load_json(path), then data["docs"]
load_json(fs, path) == json_load(fs[path])
DocsOf(data) == data.v["docs"].v

WriteFile(fs, path, content) == (path :> content) @@ fs

\* reindex: work_dir / "config", work_dir / "data", tmp_data_dir_path / collection_filename
tmp_config_path == <<"config">>
tmp_data_dir_path == <<"data">>
tmp_data_path == tmp_data_dir_path \o PlainName(collection)

----------------------------------------------------------------------------
(* Exporter._export_to_path *)

DefaultBatch == 50

\* range_step off by one: the next window starts one document too far
range_step_gap(i, step) == i + step + 1

\* range(0, num_ids, batch_size): the start that follows start i
range_step(i, step) == i + step

\* ids_missing as the test "if not ids": an empty list counts as missing too
ids_missing_falsy(result, found) == result = "None" \/ found = << >>

\* if ids is None: print(...); return
ids_missing(result, found) == result = "None"

\* filepath = file_directory / f"{self.collection}_{today_str}.json" (name is None)
export_filepath(path) == path \o DatedName(collection)

\* AfterExportPc with two steps swapped: reindex removes the collection right
\* after the data export, before the new configuration is uploaded
AfterExportPc_remove == IF cmd = "reindex" THEN "remove_collection" ELSE "finally"

\* What follows a return of export_data: the export command is over; reindex
\* ignores the returned value, prints its success message and goes on
AfterExportPc == IF cmd = "reindex" THEN "import_configs" ELSE "finally"
AfterExportOut == IF cmd = "reindex" THEN Append(stdout, 2) ELSE stdout

\* ids = await self._fetch_ids(query); if ids is None: return
fetch_ids ==
    /\ pc = "exp_scan"
    /\ \E r \in CollResponses(Responses) :
        /\ requests' = Append(requests, Req("scan", <<>>, r))
        /\ IF \/ api_request(r) = "raise"
              \/ api_request(r) = "text" /\ loads(r) = "raise"
              \/ api_request(r) = "text" /\ scan_ids(ExportHandler(coll_docs), id_col) = "KeyError"
           THEN /\ pc' = "finally"
                /\ raised' = TRUE
                /\ UNCHANGED <<ids, from_idx, stdout>>
           ELSE IF ids_missing(api_request(r), ExportHandler(coll_docs))
           THEN /\ pc' = AfterExportPc
                /\ stdout' = AfterExportOut
                /\ UNCHANGED <<raised, ids, from_idx>>
           ELSE /\ ids' = ExportHandler(coll_docs)
                /\ from_idx' = 0
                /\ pc' = "exp_window"
                /\ UNCHANGED <<raised, stdout>>
    /\ UNCHANGED <<ctlVars, clients, clusterVars, files, batch_size, data_docs, in_flight,
                   cfg_stack, importVars>>

\* window_result that leaves a window out when its fetch fails
window_result_skip(r) ==
    IF api_request(r) = "text" /\ loads(r) = "parsed" THEN "docs" ELSE "skip"

\* _get_documents: if content is None: raise ValueError; orjson.loads(content)
window_result(r) ==
    IF api_request(r) = "text" /\ loads(r) = "parsed" THEN "docs" ELSE "raise"

\* one iteration of: for from_idx in range(0, num_ids, batch_size)
get_documents ==
    /\ pc = "exp_window"
    /\ from_idx < Len(ids)
    /\ \E r \in CollResponses(Responses) :
        /\ requests' = Append(requests, Req("select", <<from_idx, batch_size>>, r))
        /\ IF window_result(r) = "docs"
           THEN /\ data_docs' = data_docs \o SelectHandler(coll_docs, from_idx, batch_size)
                /\ from_idx' = range_step(from_idx, batch_size)
                /\ UNCHANGED <<pc, raised>>
           ELSE IF window_result(r) = "raise"
           THEN /\ pc' = "finally"
                /\ raised' = TRUE
                /\ UNCHANGED <<data_docs, from_idx>>
           ELSE /\ from_idx' = range_step(from_idx, batch_size)
                /\ UNCHANGED <<data_docs, pc, raised>>
    /\ UNCHANGED <<ctlVars, stdout, clients, clusterVars, files, batch_size, ids, in_flight,
                   cfg_stack, importVars>>

\* after the loop: write the snapshot and return its path
write_snapshot ==
    /\ pc = "exp_window"
    /\ from_idx >= Len(ids)
    /\ files' = WriteFile(files, export_filepath(tmp_data_dir_path),
                          Snapshot(collection, data_docs))
    /\ pc' = AfterExportPc
    /\ stdout' = AfterExportOut
    /\ UNCHANGED <<ctlVars, raised, clients, clusterVars, requests, exportVars,
                   cfg_stack, importVars>>

\* What the operator may type at an input() prompt
Typed == {"y", "Y", "n"}

\* str.lower() on the answers of Typed
lower(a) == IF a = "Y" THEN "y" ELSE a

\* confirm that takes every answer for a yes
confirm_any(a) == TRUE

\* confirm = input("Correct? (y/n)").lower() == "y"
confirm(a) == lower(a) = "y"

\* close_client that leaves the session as it is
close_client_leak(c) == c

\* finally: close the clients that were built
close_client(c) == IF c = "open" THEN "closed" ELSE c

Finally ==
    /\ pc = "finally"
    /\ pc' = "exit"
    /\ clients' = [k \in DOMAIN clients |-> close_client(clients[k])]
    /\ UNCHANGED <<ctlVars, raised, stdout, clusterVars, files, requests, exportVars,
                   cfg_stack, importVars>>

\* The commands whose body is "try: ... except Exception: return"
swallows(c) == c \in {"import", "import-config"}

\* Exit status of the process once the command is over: an exception that
\* leaves the command function ends the interpreter with status 1, a return
\* ends it with status 0
exit_status == IF raised /\ ~swallows(cmd) THEN 1 ELSE 0

----------------------------------------------------------------------------
(* Importer: import_data and _post_documents *)

\* doc.pop(field, None)
dict_pop(doc, field) == Dict([k \in DOMAIN doc.v \ {field} |-> doc.v[k]])

\* recursive_field_remove(doc, field): a copy of doc without field at any depth
RECURSIVE recursive_field_remove(_, _)
recursive_field_remove(doc, field) ==
    IF doc.t \notin {"dict", "list"} THEN doc
    ELSE IF doc.t = "list"
    THEN List([i \in 1..Len(doc.v) |-> recursive_field_remove(doc.v[i], field)])
    ELSE Dict([k \in DOMAIN doc.v \ {field} |-> recursive_field_remove(doc.v[k], field)])

\* One pass of the loop "for doc in docs" of _post_documents, as it leaves the
\* element of docs: _version_ is popped from the element itself, the copy that
\* recursive_field_remove returns is bound to the loop variable and dropped
sanitize_in_place(doc) ==
    LET popped == dict_pop(doc, "_version_")
        rebound == recursive_field_remove(popped, "_root_")
    IN  popped

\* json.dumps(docs) after the loop
post_payload(docs) == [i \in 1..Len(docs) |-> sanitize_in_place(docs[i])]

\* keep_doc without the seen set: a later duplicate of a selected id is kept too
keep_doc_dup(doc_id, seen, upload_ids) == doc_id \in upload_ids

\* if doc_id not in seen and doc_id in upload_ids
keep_doc(doc_id, seen, upload_ids) == doc_id \notin seen /\ doc_id \in upload_ids

\* the loop over docs that fills upload_docs
RECURSIVE select_walk(_, _, _)
select_walk(docs, seen, upload_ids) ==
    IF docs = <<>> THEN <<>>
    ELSE IF keep_doc(DocId(Head(docs)), seen, upload_ids)
    THEN <<Head(docs)>> \o select_walk(Tail(docs), seen \cup {DocId(Head(docs))}, upload_ids)
    ELSE select_walk(Tail(docs), seen, upload_ids)

\* select_missing with the operands of the set difference swapped
select_missing_swapped(docs, existing_ids) ==
    select_walk(docs, {}, Range(existing_ids) \ Range(IdsOf(docs)))

\* upload_ids = docs_ids - existing_ids, then the walk
select_missing(docs, existing_ids) ==
    select_walk(docs, {}, Range(IdsOf(docs)) \ Range(existing_ids))

\* chunked without the size: everything that is left, as one batch
chunk_rest(docs, done, size) == SubSeq(docs, done + 1, Len(docs))

\* chunked(upload_docs, batch_size): the batch that starts after done documents
chunk(docs, done, size) == SubSeq(docs, done + 1, Min(done + size, Len(docs)))

\* diff_step that runs whatever overwrite is
diff_step_always(ow) == TRUE

\* if not overwrite: the id scan and the selection run; else: upload_docs = docs
diff_step(ow) == ~ow

\* The keys of the snapshot that import_data subscripts: data["collection"]
\* in _load_json, only when self.collection is None, and data["docs"]
keys_read(coll) == IF coll = "None" THEN {"collection", "docs"} ELSE {"docs"}

\* Subscripting a dict with a key it does not have raises KeyError
KeyError(data, coll) == \E k \in keys_read(coll) : k \notin DOMAIN data.v

\* collection_after_load that takes the collection of the snapshot whatever
\* the caller has set
collection_after_load_snapshot(data, coll) ==
    IF "collection" \in DOMAIN data.v THEN data.v["collection"].v ELSE coll

\* if self.collection is None: self.collection = data["collection"]
collection_after_load(data, coll) ==
    IF coll = "None" /\ "collection" \in DOMAIN data.v
    THEN data.v["collection"].v ELSE coll

\* existing_ids_result that takes a scan without an answer for a scan of an
\* empty collection
existing_ids_result_empty(r) ==
    IF api_request(r) = "None" THEN "empty"
    ELSE IF api_request(r) = "text" /\ loads(r) = "parsed" THEN "ids" ELSE "raise"

\* existing_ids = await self._fetch_ids(query="*:*")
\* if existing_ids is None: raise ValueError("Error fetching collection IDs :(")
existing_ids_result(r) ==
    IF api_request(r) = "None" THEN "raise"
    ELSE IF api_request(r) = "text" /\ loads(r) = "parsed" THEN "ids" ELSE "raise"

\* What follows a return of import_data
AfterImportOut == IF cmd = "reindex" THEN Append(stdout, 6) ELSE stdout

\* import_data up to its confirmation prompt: load the file, select the
\* documents to upload (all of them with overwrite, else those the id scan of
\* the live collection does not report), return if there are none
load_and_select ==
    /\ pc = "imp_load"
    /\ IF imp_path \notin DOMAIN files
       THEN /\ pc' = "finally"
            /\ raised' = TRUE
            /\ UNCHANGED <<requests, upload_docs, stdout, self_collection>>
       ELSE LET data == load_json(files, imp_path)
            IN  /\ self_collection' = collection_after_load(data, self_collection)
                /\ IF KeyError(data, self_collection)
                   THEN /\ pc' = "finally"
                        /\ raised' = TRUE
                        /\ UNCHANGED <<requests, upload_docs, stdout>>
                   ELSE IF ~diff_step(overwrite)
                   THEN /\ upload_docs' = DocsOf(data)
                        /\ IF Len(upload_docs') = 0
                           THEN pc' = "finally" /\ stdout' = AfterImportOut
                           ELSE pc' = "imp_confirm" /\ UNCHANGED stdout
                        /\ UNCHANGED <<requests, raised>>
                   ELSE \E r \in ResponsesOf(self_collection', Responses) :
                        /\ requests' = Append(requests, Req("scan", <<>>, r))
                        /\ IF \/ existing_ids_result(r) = "empty"
                              \/ /\ existing_ids_result(r) = "ids"
                                 /\ scan_ids(ExportHandler(coll_docs), id_col) = "ids"
                           THEN /\ upload_docs' = select_missing(DocsOf(data),
                                       IF existing_ids_result(r) = "empty" THEN << >>
                                       ELSE ExportHandler(coll_docs))
                                /\ IF Len(upload_docs') = 0
                                   THEN pc' = "finally" /\ stdout' = AfterImportOut
                                   ELSE pc' = "imp_confirm" /\ UNCHANGED stdout
                                /\ UNCHANGED raised
                           ELSE /\ pc' = "finally"
                                /\ raised' = TRUE
                                /\ UNCHANGED <<upload_docs, stdout>>
    /\ UNCHANGED <<ctlVars, clients, clusterVars, files, exportVars, cfg_stack,
                   imp_path, imp_batch, overwrite, post_idx>>

\* The prompt of import_data: anything but a yes prints the cancel message
\* and returns
confirm_import ==
    /\ pc = "imp_confirm"
    /\ \E a \in Typed :
        /\ answers' = Append(answers, lower(a))
        /\ IF confirm(a)
           THEN pc' = "imp_post" /\ post_idx' = 0 /\ UNCHANGED stdout
           ELSE pc' = "finally" /\ stdout' = AfterImportOut /\ UNCHANGED post_idx
    /\ UNCHANGED <<cmdVars, written, raised, clients, clusterVars, files, requests, exportVars,
                   cfg_stack, imp_path, imp_batch, overwrite, upload_docs,
                   self_collection>>

\* batch_after with the except clause removed: an exception of the post leaves
\* import_data
batch_after_abort(result) == IF result = "raise" THEN "raise" ELSE "continue"

\* try: await self._post_documents(docs=batch_docs) / except Exception: print:
\* whatever the post did, the loop goes on
batch_after(result) == "continue"

\* One iteration of "for batch_docs in chunked(upload_docs, batch_size)": the
\* batch is sanitized in place and posted; None and every exception of the post
\* are dropped. After the last batch import_data returns.
post_documents ==
    /\ pc = "imp_post"
    /\ post_idx < Len(upload_docs)
    /\ LET batch == chunk(upload_docs, post_idx, imp_batch)
           payload == post_payload(batch)
       IN  /\ \E r \in ResponsesOf(self_collection, PlainResponses) :
                /\ requests' = Append(requests, ReqTo("update", self_collection, payload, r))
                /\ coll_docs' = IF r.status = 200 THEN UpdateHandler(coll_docs, payload)
                                ELSE coll_docs
                /\ raised' = (batch_after(api_request(r)) = "raise")
           /\ upload_docs' = [i \in 1..Len(upload_docs) |->
                                IF i > post_idx /\ i <= post_idx + Len(batch)
                                THEN payload[i - post_idx] ELSE upload_docs[i]]
           /\ post_idx' = post_idx + Len(batch)
           /\ IF raised'
              THEN pc' = "finally" /\ UNCHANGED stdout
              ELSE IF post_idx' >= Len(upload_docs)
              THEN pc' = "finally" /\ stdout' = AfterImportOut
              ELSE UNCHANGED <<pc, stdout>>
    /\ UNCHANGED <<ctlVars, clients, coll_exists, coll_config, configsets, files,
                   exportVars, cfg_stack, imp_path, imp_batch, overwrite,
                   self_collection>>

----------------------------------------------------------------------------
(* Configuration files: the cluster's /admin/file handler, Exporter.export_config *)
(* and Exporter._parse_tree, Importer.import_configs                             *)

\* A configuration is a function from the relative paths of its files to
\* their content; p is a directory of it when it is a proper prefix of a file
TreeA == (<<"schema">> :> "schemaA") @@ (<<"lang", "stop">> :> "stopA")

IsDir(tree, p) == \E q \in DOMAIN tree : Len(q) > Len(p) /\ IsPrefix(p, q)

ChildNames(tree, p) == {q[Len(p) + 1] : q \in {x \in DOMAIN tree : Len(x) > Len(p) /\ IsPrefix(p, x)}}

\* The "files" object of the listing of directory p, in the order of the answer
Listing(tree, p) ==
    LET names == ChildNames(tree, p)
        order == CHOOSE s \in Perms(names) : TRUE
    IN  [i \in 1..Len(order) |->
            [name |-> order[i], directory |-> IsDir(tree, p \o <<order[i]>>)]]

\* The configuration read through /solr/{collection}/admin/file
LiveTree == configsets[coll_config]

\* /admin/file?file=p can be answered 200 only for a path of the configuration
AdminFileResponses(p, R) ==
    IF coll_exists /\ (p = << >> \/ IsDir(LiveTree, p) \/ p \in DOMAIN LiveTree)
    THEN R ELSE {r \in R : r.status # 200}

\* The text of a 200 answer for p: the listing of a directory, else the file
AdminFileText(p) == IF p = << >> \/ IsDir(LiveTree, p) THEN "listing" ELSE LiveTree[p]

\* The answer to the fetch of file p as the client receives it: the body of a
\* file that is not UTF-8 text cannot be decoded
FileResponse(r, p) ==
    IF r.status = 200 /\ AdminFileText(p) = "binary"
    THEN [status |-> 200, body |-> "undecodable"]
    ELSE r

\* Calls of _parse_tree that have run through their loop have returned
RECURSIVE Returned(_)
Returned(stack) ==
    IF stack = << >> THEN stack
    ELSE IF Head(stack).todo = << >> THEN Returned(Tail(stack))
    ELSE stack

\* What follows a return of export_config
AfterConfigPc == IF cmd = "reindex" THEN "exp_scan" ELSE "finally"
AfterConfigOut == IF cmd = "reindex" THEN Append(stdout, 1) ELSE stdout

\* export_config up to its call of _parse_tree: the listing of the root
export_config ==
    /\ pc = "cfg_root"
    /\ \E r \in AdminFileResponses(<< >>, Responses) :
        /\ requests' = Append(requests, Req("cfg_list", << >>, r))
        /\ IF api_request(r) = "text" /\ loads(r) = "parsed"
           THEN /\ cfg_stack' = Returned(<<[path |-> << >>, folder |-> cfg_dest,
                                           todo |-> Listing(LiveTree, << >>)]>>)
                /\ IF cfg_stack' = << >>
                   THEN pc' = AfterConfigPc /\ stdout' = AfterConfigOut
                   ELSE pc' = "cfg_tree" /\ UNCHANGED stdout
                /\ UNCHANGED raised
           ELSE /\ pc' = "finally"
                /\ raised' = TRUE
                /\ UNCHANGED <<cfg_stack, stdout>>
    /\ UNCHANGED <<ctlVars, clients, clusterVars, files, exportVars, importVars>>

\* dir_files.path += f"{filename}/", dir_files.path being "" in the answer
dir_files_path(filename) == <<filename>>

\* file_fetch_result that skips a file whose content could not be fetched
file_fetch_result_skip(r) == IF api_request(r) = "text" THEN "write" ELSE "skip"

\* resp = await self.api_request(path=url); if resp is None: raise ValueError
file_fetch_result(r) == IF api_request(r) = "text" THEN "write" ELSE "raise"

\* One iteration of the loop of the innermost _parse_tree: a directory is
\* listed (by its bare name) and entered, a file is fetched by tree.path +
\* filename and written to folder / filename
parse_tree ==
    /\ pc = "cfg_tree"
    /\ LET top == Head(cfg_stack)
           entry == Head(top.todo)
           rest == <<[top EXCEPT !.todo = Tail(top.todo)]>> \o Tail(cfg_stack)
           url == IF entry.directory THEN <<entry.name>> ELSE top.path \o <<entry.name>>
       IN  \E r \in AdminFileResponses(url, IF entry.directory THEN Responses ELSE PlainResponses) :
            /\ requests' = Append(requests, Req(IF entry.directory THEN "cfg_list" ELSE "cfg_file", url, r))
            /\ IF entry.directory
               THEN IF api_request(r) = "text" /\ loads(r) = "parsed" /\ AdminFileText(url) = "listing"
                    THEN /\ cfg_stack' = Returned(<<[path |-> dir_files_path(entry.name),
                                                    folder |-> top.folder \o <<entry.name>>,
                                                    todo |-> Listing(LiveTree, url)]>> \o rest)
                         /\ UNCHANGED <<files, raised>>
                    ELSE /\ raised' = TRUE
                         /\ UNCHANGED <<files, cfg_stack>>
               ELSE IF file_fetch_result(FileResponse(r, url)) = "write"
                    THEN /\ files' = WriteFile(files, top.folder \o <<entry.name>>, AdminFileText(url))
                         /\ cfg_stack' = Returned(rest)
                         /\ UNCHANGED raised
                    ELSE IF file_fetch_result(FileResponse(r, url)) = "raise"
                    THEN /\ raised' = TRUE
                         /\ UNCHANGED <<files, cfg_stack>>
                    ELSE /\ cfg_stack' = Returned(rest)
                         /\ UNCHANGED <<files, raised>>
            /\ IF raised'
               THEN pc' = "finally" /\ UNCHANGED stdout
               ELSE IF cfg_stack' = << >>
               THEN pc' = AfterConfigPc /\ stdout' = AfterConfigOut
               ELSE UNCHANGED <<pc, stdout>>
    /\ UNCHANGED <<cmd, config_name, not_found, paramVars, answers, written, clients, clusterVars, exportVars,
                   importVars>>
    /\ config_path' = IF ~raised' /\ cfg_stack' = << >> /\ cmd = "reindex"
                      THEN cfg_dest ELSE config_path

\* The files under dir, by their paths relative to dir
LocalTree(fs, dir) ==
    LET under == {p \in DOMAIN fs : Len(p) > Len(dir) /\ IsPrefix(dir, p)}
    IN  [q \in {SubSeq(p, Len(dir) + 1, Len(p)) : p \in under} |-> fs[dir \o q]]

\* zip_archive that stores every file under its bare name
zip_archive_flat(fs, dir) ==
    LET tree == LocalTree(fs, dir)
        names == {p[Len(p)] : p \in DOMAIN tree}
    IN  [q \in {<<n>> : n \in names} |->
            tree[CHOOSE p \in DOMAIN tree : p[Len(p)] = q[1]]]

\* for path in configs_path.rglob("*"): zf.write(path, path.relative_to(configs_path))
zip_archive(fs, dir) == LocalTree(fs, dir)

\* new_config_name = f"{collection_name}_{now_str}"
new_config_name == <<collection, now_str>>

\* if name is None: name = configs_path.name
upload_name(path, name) == IF name = << >> THEN <<path[Len(path)]>> ELSE name

\* A success the cluster reports with a 2xx status other than 200
Created == [status |-> 201, body |-> "text"]

\* The statuses with which the cluster reports that it did what was asked
Success(status) == status \in 200..299

\* /admin/configs?action=UPLOAD with overwrite=false is refused for a name in use
UploadResponses(name, ow) ==
    IF ~ow /\ name \in DOMAIN configsets THEN {r \in PlainResponses : r.status # 200}
    ELSE PlainResponses \cup {Created}

\* DELETE /api/cluster/configs/{name} succeeds only for a configuration that
\* exists and that no collection uses
ConfigDeleteResponses(name) ==
    IF name \in DOMAIN configsets /\ ~(coll_exists /\ coll_config = name)
    THEN PlainResponses
    ELSE {r \in PlainResponses : r.status # 200}

\* The configurations without the one called name
WithoutConfig(sets, name) == [n \in DOMAIN sets \ {name} |-> sets[n]]

\* What follows a return of import_configs in reindex
AfterImportConfigsPc == IF cmd = "reindex" THEN "remove_collection" ELSE "finally"
AfterImportConfigsOut == IF cmd = "reindex" THEN Append(stdout, 3) ELSE stdout

\* remove_config_result without the check of the answer: a refused delete is
\* ignored
remove_config_result_unchecked(r) == IF api_request(r) = "raise" THEN "raise" ELSE "return"

\* _remove_config: if r is None: raise ValueError
remove_config_result(r) == IF api_request(r) = "text" THEN "return" ELSE "raise"

\* import_configs up to the upload: the operator is asked; on "y", with
\* overwrite, the configuration of that name is deleted first
import_configs ==
    /\ pc = "import_configs"
    /\ \E a \in Typed :
        /\ answers' = Append(answers, lower(a))
        /\ IF ~confirm(a)
           THEN /\ pc' = AfterImportConfigsPc
                /\ stdout' = AfterImportConfigsOut
                /\ UNCHANGED <<requests, configsets, raised>>
           ELSE IF cfg_overwrite
           THEN LET name == upload_name(configs_path, cfg_name)
                IN  \E r \in ConfigDeleteResponses(name) :
                       /\ requests' = Append(requests, Req("cfg_delete", name, r))
                       /\ configsets' = IF r.status = 200 THEN WithoutConfig(configsets, name)
                                        ELSE configsets
                       /\ raised' = (remove_config_result(r) = "raise")
                       /\ pc' = IF raised' THEN "finally" ELSE "cfg_upload"
                       /\ UNCHANGED stdout
           ELSE /\ pc' = "cfg_upload"
                /\ UNCHANGED <<requests, configsets, raised, stdout>>
    /\ UNCHANGED <<cmdVars, written, clients, coll_exists, coll_docs, coll_config, files,
                   exportVars, cfg_stack, importVars>>

\* the rest of import_configs: the directory is packed, every file under its
\* path relative to configs_path, and uploaded under the name
upload_config ==
    /\ pc = "cfg_upload"
    /\ LET name == upload_name(configs_path, cfg_name)
           tree == zip_archive(files, configs_path)
       IN  \E r \in UploadResponses(name, cfg_overwrite) :
             /\ requests' = Append(requests,
                    Req("cfg_upload", [name |-> name, tree |-> tree, overwrite |-> cfg_overwrite], r))
             /\ configsets' = IF Success(r.status) THEN (name :> tree) @@ configsets
                              ELSE configsets
             /\ IF api_request(r) = "text"
                THEN pc' = AfterImportConfigsPc /\ stdout' = AfterImportConfigsOut /\ UNCHANGED raised
                ELSE pc' = "finally" /\ raised' = TRUE /\ UNCHANGED stdout
    /\ UNCHANGED <<ctlVars, clients, coll_exists, coll_docs, coll_config, files,
                   exportVars, cfg_stack, importVars>>

\* The remove-config command: the prompt comes first; only a confirmed run
\* builds the client and calls _remove_config(name)
remove_config ==
    /\ pc = "remove_config"
    /\ \E a \in Typed :
        /\ answers' = Append(answers, lower(a))
        /\ IF ~confirm(a)
           THEN UNCHANGED <<requests, configsets, raised, clients>>
           ELSE \E r \in ConfigDeleteResponses(cfg_name) :
                   /\ clients' = [clients EXCEPT !.importer = "open"]
                   /\ requests' = Append(requests, Req("cfg_delete", cfg_name, r))
                   /\ configsets' = IF r.status = 200 THEN WithoutConfig(configsets, cfg_name)
                                    ELSE configsets
                   /\ raised' = (remove_config_result(r) = "raise")
    /\ pc' = "finally"
    /\ UNCHANGED <<cmdVars, written, stdout, coll_exists, coll_docs, coll_config, files,
                   exportVars, cfg_stack, importVars>>

----------------------------------------------------------------------------
(* reindex_collection: the steps that are requests of their own *)

\* The paths reindex_collection names in its output when an exception leaves
\* the try block: there is no except clause, and the finally clause closes
\* the two clients and prints nothing
paths_printed == {}

\* step_after with an except clause that swallows the exception of a step
step_after_swallow(result, next) == next

\* A step inside "try: ... finally:" without an except clause: an exception
\* leaves the try block, a return goes on to the next statement
step_after(result, next) == IF result = "raise" THEN "finally" ELSE next

\* remove_collection: await self.api_request(path=url), the result is dropped
remove_collection_result(r) == IF api_request(r) = "raise" THEN "raise" ELSE "return"

\* create_collection: fails on anything but a success answer
create_collection_result(r) == IF api_request(r) = "text" THEN "return" ELSE "raise"

\* /admin/collections?action=CREATE succeeds only for a free name and a
\* configuration that exists
CreateResponses(name) ==
    IF ~coll_exists /\ name \in DOMAIN configsets THEN PlainResponses
    ELSE {r \in PlainResponses : r.status # 200}

\* after_lookup without the return: the steps are entered whether or not the
\* collection was found
after_lookup_goes_on(found, cpath) == IF cpath = << >> THEN "cfg_root" ELSE "exp_scan"

\* if len(collections_filtered) == 0: print(...); return. Else step 1 is
\* entered when config_path is None, step 2 otherwise
after_lookup(found, cpath) ==
    IF ~found THEN "finally"
    ELSE IF cpath = << >> THEN "cfg_root"
    ELSE "exp_scan"

\* if config_name is None: config_name = collection.configName
config_name_of(found, cname) == IF found /\ cname = << >> THEN coll_config ELSE cname

\* build both clients, read the cluster status, look the collection up
reindex_start ==
    /\ pc = "reindex"
    /\ clients' = [importer |-> "open", exporter |-> "open"]
    /\ \E r \in Responses :
        /\ requests' = Append(requests, Req("cluster_status", << >>, r))
        /\ IF api_request(r) = "text" /\ loads(r) = "parsed"
           THEN /\ pc' = after_lookup(coll_exists, config_path)
                /\ not_found' = ~coll_exists
                /\ config_name' = config_name_of(coll_exists, config_name)
                /\ UNCHANGED raised
           ELSE /\ pc' = "finally"
                /\ raised' = TRUE
                /\ UNCHANGED <<not_found, config_name>>
    /\ UNCHANGED <<cmd, config_path, paramVars, answers, written, stdout, clusterVars, files, exportVars,
                   cfg_stack, importVars>>

\* step 4: await importer.remove_collection(collection_name=collection_name)
remove_collection ==
    /\ pc = "remove_collection"
    /\ \E r \in CollResponses(PlainResponses) :
        /\ requests' = Append(requests, Req("delete", << >>, r))
        /\ coll_exists' = IF r.status = 200 THEN FALSE ELSE coll_exists
        /\ coll_docs' = IF r.status = 200 THEN << >> ELSE coll_docs
        /\ pc' = step_after(remove_collection_result(r), "create_collection")
        /\ raised' = (pc' = "finally")
        /\ stdout' = IF pc' = "finally" THEN stdout ELSE Append(stdout, 4)
    /\ UNCHANGED <<ctlVars, clients, coll_config, configsets, files, exportVars,
                   cfg_stack, importVars>>

\* step 5: await importer.create_collection(collection_name, new_config_name);
\* then import_data(path=tmp_data_path) is entered with its defaults
create_collection ==
    /\ pc = "create_collection"
    /\ \E r \in CreateResponses(new_config_name) :
        /\ requests' = Append(requests, Req("create", new_config_name, r))
        /\ coll_exists' = IF r.status = 200 THEN TRUE ELSE coll_exists
        /\ coll_config' = IF r.status = 200 THEN new_config_name ELSE coll_config
        /\ pc' = step_after(create_collection_result(r), "imp_load")
        /\ raised' = (pc' = "finally")
        /\ stdout' = IF pc' = "finally" THEN stdout ELSE Append(stdout, 5)
    /\ UNCHANGED <<ctlVars, clients, coll_docs, configsets, files, exportVars,
                   cfg_stack, importVars>>

----------------------------------------------------------------------------
(* The reindex command *)

supplied_config == <<"newcfg">>

\* The snapshot whose documents are the stored ones of the given ids
SnapshotOfStored(a) == Snapshot(collection, [k \in 1..Len(a) |-> StoredDoc(a[k])])

\* The work directory may hold the data file of an earlier run
StaleFiles == {<< >>} \cup {(tmp_data_path :> SnapshotOfStored(SortDesc(S))) : S \in SUBSET DocIds}

\* and the configuration directory an earlier run exported
StaleConfigs ==
    {<< >>,
     (tmp_config_path \o <<"schema">> :> "schemaOld")
         @@ (tmp_config_path \o <<"lang", "stop">> :> "stopOld")}

Init ==
    /\ cmd = "reindex"
    /\ id_col = "id"
    /\ config_path \in {<< >>, supplied_config}
    /\ config_name = << >>
    /\ not_found = FALSE
    /\ cfg_dest = tmp_config_path
    /\ configs_path = tmp_config_path
    /\ cfg_name = new_config_name
    /\ cfg_overwrite = FALSE
    /\ pc = "reindex"
    /\ raised = FALSE
    /\ stdout = << >>
    /\ clients = [importer |-> "none", exporter |-> "none"]
    /\ coll_exists \in BOOLEAN
    /\ \E S \in SUBSET DocIds : coll_docs \in Perms(S)
    /\ coll_exists = FALSE => coll_docs = << >>
    \* the collection's configuration is cfgA or, after a reindex within the
    \* same minute (now_str has the resolution of a minute), the one it names
    /\ coll_config \in {<<"cfgA">>, new_config_name}
    /\ configsets = (coll_config :> TreeA)
    /\ \E stale \in StaleFiles, old \in StaleConfigs :
          files = IF config_path = << >> THEN old @@ stale
                  ELSE (supplied_config \o <<"schema">> :> "schemaB") @@ old @@ stale
    /\ requests = << >>
    /\ in_flight = {}
    /\ written = << >>
    /\ batch_size = DefaultBatch
    /\ ids = << >>
    /\ from_idx = 0
    /\ data_docs = << >>
    /\ cfg_stack = << >>
    /\ imp_path = tmp_data_path
    /\ imp_batch = DefaultBatch
    /\ overwrite = TRUE
    /\ upload_docs = << >>
    /\ post_idx = 0
    /\ answers = << >>
    /\ self_collection = collection

Next ==
    \/ reindex_start
    \/ export_config
    \/ parse_tree
    \/ fetch_ids
    \/ get_documents
    \/ write_snapshot
    \/ import_configs
    \/ upload_config
    \/ remove_collection
    \/ create_collection
    \/ load_and_select
    \/ confirm_import
    \/ post_documents
    \/ Finally

Spec == Init /\ [][Next]_vars

----------------------------------------------------------------------------
(* Properties of reindex *)

Ended == pc = "exit"

Last(s) == s[Len(s)]

\* The reindex step a request belongs to (0: before step 1)
StepOf(op) ==
    CASE op \in {"cfg_list", "cfg_file"} -> 1
      [] op \in {"scan", "select"} -> 2
      [] op = "cfg_upload" -> 3
      [] op = "delete" -> 4
      [] op = "create" -> 5
      [] op = "update" -> 6
      [] OTHER -> 0

Issued(op) == \E k \in 1..Len(requests) : requests[k].op = op

Answered(op, ok) ==
    \E k \in 1..Len(requests) : requests[k].op = op /\ (requests[k].status = 200) = ok

Count(op) == Len(SelectSeq(requests, LAMBDA q : q.op = op))

\* ReindexState as a number: 0 NotStarted, 1 ConfigExported, 2 DataExported,
\* 3 ConfigImported, 4 CollectionRemoved, 5 CollectionCreated, 6 DataImported,
\* 7 Done
ReindexRank ==
    IF stdout = << >> THEN 0
    ELSE IF Last(stdout) = 6 /\ Ended /\ ~raised THEN 7
    ELSE Last(stdout)

Done == ReindexRank = 7

\* The file the data export writes
ExportedPath == export_filepath(tmp_data_dir_path)

\* C1: the delete-collection request is issued only after step 2 has written a
\* snapshot file, and a run in which the id scan or a document fetch of step 2
\* failed ends with the collection still there.
C1_DeleteOnlyAfterExport ==
    /\ Issued("delete") => ExportedPath \in DOMAIN files
    /\ (Ended /\ (Answered("scan", FALSE) \/ Answered("select", FALSE))) => coll_exists

\* The steps completed so far are the first steps of the plan: all six, or the
\* last five when a configuration path was supplied
StepsInOrder ==
    \E first \in {1, 2} : \E n \in 0..6 :
        /\ first + n - 1 <= 6
        /\ stdout = [k \in 1..n |-> first + k - 1]

\* The requests issued so far never go back to an earlier step
RequestsInOrder ==
    \A k, l \in 1..Len(requests) :
        k < l => StepOf(requests[k].op) <= StepOf(requests[l].op)

\* C2: the steps run in the order export config, export data, import config,
\* remove collection, create collection, import data, none of them twice, and
\* ReindexState only moves forward.
C2_ForwardOnly ==
    [][/\ ReindexRank' >= ReindexRank
       /\ StepsInOrder'
       /\ RequestsInOrder']_vars

\* A run that went through all six steps
C2_Witness == Done /\ stdout = <<1, 2, 3, 4, 5, 6>> /\ Count("update") = 1

\* C3: Done is reached only if all six steps succeeded, and after a request
\* that failed no request of a later step is issued.
C3_DoneOnlyIfAllSucceeded ==
    /\ Done => \A k \in 1..Len(requests) : requests[k].status = 200
    /\ \A k, l \in 1..Len(requests) :
          (k < l /\ requests[k].status # 200) =>
              StepOf(requests[l].op) <= StepOf(requests[k].op)

\* C4: when the steps before it succeeded and the delete-collection request
\* of step 4 gets a failure response, neither a create-collection request nor
\* a document upload is issued afterwards.
C4_HaltOnDeleteFailure ==
    \A k, l \in 1..Len(requests) :
        (/\ k < l
         /\ requests[k].op = "delete"
         /\ requests[k].status # 200
         /\ \A j \in 1..(k - 1) : requests[j].status = 200
         /\ Issued("cfg_upload")) =>
            requests[l].op \notin {"create", "update"}

\* Step 4 removed the collection and step 5 failed
RemovedNotCreated == Ended /\ Answered("delete", TRUE) /\ Answered("create", FALSE)

\* C5: when the removal succeeded and the creation failed, the run ends in an
\* error with no collection of that name, one delete and one create request
\* and no upload, and the snapshot and the configuration directory are as the
\* export steps wrote them.
C5_NoRollback ==
    RemovedNotCreated =>
        /\ raised
        /\ ~coll_exists
        /\ Count("delete") = 1
        /\ Count("create") = 1
        /\ ~Issued("update")
        /\ stdout \in {<<1, 2, 3, 4>>, <<2, 3, 4>>}
        /\ ExportedPath \in DOMAIN files =>
              files[ExportedPath] = Snapshot(collection, data_docs)
        /\ 1 \in Range(stdout) => LocalTree(files, tmp_config_path) = TreeA

\* Such a run, after both exports wrote their files
C5_Witness ==
    /\ RemovedNotCreated
    /\ 1 \in Range(stdout)
    /\ ExportedPath \in DOMAIN files
    /\ Len(data_docs) = 2

\* Every request was answered 200 and the operator confirmed both prompts
AllStepsSucceeded ==
    /\ \A k \in 1..Len(requests) : requests[k].status = 200
    /\ Issued("cfg_upload")
    /\ upload_docs = << >> \/ Issued("update")

\* C6: a reindex without configuration path that reaches Done (every step
\* having succeeded) leaves the configuration C_{timestamp} present, C bound to
\* it, and every document exported in step 2 in the new C.
C6_DoneRestoresCollection ==
    (Done /\ stdout = <<1, 2, 3, 4, 5, 6>> /\ AllStepsSucceeded) =>
        /\ new_config_name \in DOMAIN configsets
        /\ coll_exists
        /\ coll_config = new_config_name
        /\ Range(IdsOf(data_docs)) \subseteq Range(coll_docs)

----------------------------------------------------------------------------
(* Export command on its own: any collection, any batch size *)

InitExport ==
    /\ cmd = "export"
    /\ id_col = "id"
    /\ config_path = << >>
    /\ config_name = << >>
    /\ not_found = FALSE
    /\ cfg_dest = tmp_config_path
    /\ configs_path = tmp_config_path
    /\ cfg_name = << >>
    /\ cfg_overwrite = FALSE
    /\ pc = "exp_scan"
    /\ raised = FALSE
    /\ stdout = << >>
    /\ clients = [importer |-> "none", exporter |-> "open"]
    /\ coll_exists \in BOOLEAN
    /\ \E S \in SUBSET DocIds : coll_docs \in Perms(S)
    /\ coll_config = <<"cfgA">>
    /\ configsets = (<<"cfgA">> :> TreeA)
    /\ files = << >>
    /\ requests = << >>
    /\ in_flight = {}
    /\ written = << >>
    /\ batch_size \in 1..MaxBatch
    /\ ids = << >>
    /\ from_idx = 0
    /\ data_docs = << >>
    /\ cfg_stack = << >>
    /\ imp_path = << >>
    /\ imp_batch = DefaultBatch
    /\ overwrite = TRUE
    /\ upload_docs = << >>
    /\ post_idx = 0
    /\ answers = << >>
    /\ self_collection = collection

NextExport == fetch_ids \/ get_documents \/ write_snapshot \/ Finally

SpecExport == InitExport /\ [][NextExport]_vars

\* The select requests issued so far, in order
SelectRequests == SelectSeq(requests, LAMBDA q : q.op = "select")

\* The export ran to its end and wrote its snapshot
ExportWritten == pc = "exit" /\ ~raised /\ ExportedPath \in DOMAIN files

\* Number of window starts 0, W, 2W, ... below n
NumWindows(n, W) == (n + W - 1) \div W

\* C7: for every document set D and batch size W >= 1, a finished export has
\* requested exactly the windows (0,W), (W,W), (2W,W), ... with start below |D|,
\* each answered, and the snapshot holds every document of D exactly once.
C7_WindowsTile ==
    ExportWritten =>
        /\ Len(SelectRequests) = NumWindows(Len(coll_docs), batch_size)
        /\ \A k \in 1..Len(SelectRequests) :
              /\ SelectRequests[k].arg = <<(k - 1) * batch_size, batch_size>>
              /\ SelectRequests[k].status = 200
        /\ Len(DocsOf(load_json(files, ExportedPath))) = Len(coll_docs)
        /\ Range(IdsOf(DocsOf(load_json(files, ExportedPath)))) = Range(coll_docs)
        /\ NoDup(IdsOf(DocsOf(load_json(files, ExportedPath))))

\* A finished export of three documents in windows of two (W does not divide |D|)
C7_Witness ==
    /\ ExportWritten
    /\ Len(coll_docs) = 3
    /\ batch_size = 2
    /\ Len(SelectRequests) = 2

\* C8: the k-th document of the snapshot has the k-th id of the id scan
\* (descending by id).
C8_SnapshotInScanOrder ==
    ExportWritten =>
        \A k \in 1..Len(DocsOf(load_json(files, ExportedPath))) :
            DocId(DocsOf(load_json(files, ExportedPath))[k]) = ids[k]

----------------------------------------------------------------------------
(* Import command on its own: any snapshot (ids may repeat), any live      *)
(* collection, with and without overwrite                                  *)

\* All sequences over S of length at most n
SeqsUpTo(S, n) == UNION {[1..k -> S] : k \in 0..n}

RECURSIVE SortAsc(_)
SortAsc(S) == IF S = {} THEN <<>> ELSE SortAsc(S \ {SetMax(S)}) \o <<SetMax(S)>>

\* The snapshot with the given ids; the k-th document carries k as its version,
\* so that two documents of the same id differ
SnapshotOfIds(a) ==
    Snapshot(collection,
             [k \in 1..Len(a) |-> Dict((id_col :> Val(a[k])) @@ ("_version_" :> Val(k)))])

InitImportCommon ==
    /\ cmd = "import"
    /\ config_path = << >>
    /\ config_name = << >>
    /\ not_found = FALSE
    /\ cfg_dest = tmp_config_path
    /\ configs_path = tmp_config_path
    /\ cfg_name = << >>
    /\ cfg_overwrite = FALSE
    /\ pc = "imp_load"
    /\ raised = FALSE
    /\ stdout = << >>
    /\ clients = [importer |-> "open", exporter |-> "none"]
    /\ coll_config = <<"cfgA">>
    /\ configsets = (<<"cfgA">> :> TreeA)
    /\ requests = << >>
    /\ in_flight = {}
    /\ written = << >>
    /\ batch_size = DefaultBatch
    /\ ids = << >>
    /\ from_idx = 0
    /\ data_docs = << >>
    /\ cfg_stack = << >>
    /\ imp_path = tmp_data_path
    /\ upload_docs = << >>
    /\ post_idx = 0
    /\ answers = << >>

InitImport ==
    /\ InitImportCommon
    /\ id_col = "id"
    /\ self_collection = collection
    /\ coll_exists \in BOOLEAN
    /\ \E S \in SUBSET DocIds : coll_docs = SortAsc(S)
    /\ \/ files = << >>
       \/ \E a \in SeqsUpTo(DocIds, MaxSnap) : files = (imp_path :> SnapshotOfIds(a))
    /\ imp_batch \in 1..MaxBatch
    /\ overwrite \in BOOLEAN

NextImport == load_and_select \/ confirm_import \/ post_documents \/ Finally

SpecImport == InitImport /\ [][NextImport]_vars

\* The diff step has just run: the id scan was answered and nothing was posted
DiffDone ==
    /\ ~overwrite
    /\ ~raised
    /\ Len(requests) = 1
    /\ requests[1].status = 200

\* Position of the first document of id i in docs
FirstIndex(docs, i) == CHOOSE k \in 1..Len(docs) :
    DocId(docs[k]) = i /\ \A j \in 1..(k - 1) : DocId(docs[j]) # i

\* C9: in non-overwrite import, for every snapshot id sequence A and every set
\* B of ids in the live collection, the documents selected for upload have the
\* ids A minus B, each once; each is the first document of its id in the
\* snapshot, and they are in the snapshot's first-seen order.
C9_DiffSelectsMissing ==
    DiffDone =>
        LET A == DocsOf(load_json(files, imp_path))
            B == Range(coll_docs)
        IN  /\ Range(IdsOf(upload_docs)) = Range(IdsOf(A)) \ B
            /\ NoDup(IdsOf(upload_docs))
            /\ \A k \in 1..Len(upload_docs) :
                  upload_docs[k] = A[FirstIndex(A, DocId(upload_docs[k]))]
            /\ \A k, l \in 1..Len(upload_docs) :
                  k < l => FirstIndex(A, DocId(upload_docs[k])) < FirstIndex(A, DocId(upload_docs[l]))

\* A snapshot with a repeated id, one id already live, two documents selected
C9_Witness ==
    /\ DiffDone
    /\ IdsOf(DocsOf(load_json(files, imp_path))) = <<2, 1, 2>>
    /\ coll_docs = <<3>>
    /\ Len(upload_docs) = 2

----------------------------------------------------------------------------
(* Import of documents that carry _version_ and _root_, nested or not *)

ChildDocs(parent) ==
    {Dict((id_col :> Val(parent + 1)) @@ ("_root_" :> Val(parent))),
     Dict((id_col :> Val(parent + 1)) @@ ("_root_" :> Val(parent)) @@ ("_version_" :> Val(parent)))}

\* Documents of id i as a nested export returns them
RichDocs(i) ==
    LET base == (id_col :> Val(i)) @@ ("_version_" :> Val(i))
    IN  {Dict(base), Dict(base @@ ("_root_" :> Val(i)))}
        \cup {Dict(base @@ ("_root_" :> Val(i)) @@ ("_childDocuments_" :> List(<<c>>))) :
                c \in ChildDocs(i)}

InitSanitize ==
    /\ InitImportCommon
    /\ id_col = "id"
    /\ coll_exists = TRUE
    /\ coll_docs \in {<< >>, <<1>>}
    /\ \E n \in 1..MaxSnap : \E docs \in [1..n -> UNION {RichDocs(i) : i \in DocIds}] :
          /\ \A k \in 1..n : DocId(docs[k]) = k
          /\ files = (imp_path :> Snapshot(collection, docs))
    /\ imp_batch \in 1..MaxBatch
    /\ overwrite = TRUE
    /\ self_collection = collection

SpecSanitize == InitSanitize /\ [][NextImport]_vars

\* node holds a key named field, at any depth
RECURSIVE HasField(_, _)
HasField(node, field) ==
    IF node.t = "val" THEN FALSE
    ELSE IF node.t = "list" THEN \E i \in 1..Len(node.v) : HasField(node.v[i], field)
    ELSE field \in DOMAIN node.v \/ \E k \in DOMAIN node.v : HasField(node.v[k], field)

UpdateRequests == SelectSeq(requests, LAMBDA q : q.op = "update")

\* C10: no posted batch holds _version_ or _root_ at any nesting depth.
C10_PayloadSanitized ==
    \A k \in 1..Len(UpdateRequests) : \A i \in 1..Len(UpdateRequests[k].arg) :
        /\ ~HasField(UpdateRequests[k].arg[i], "_version_")
        /\ ~HasField(UpdateRequests[k].arg[i], "_root_")

----------------------------------------------------------------------------
(* Bulk import: the batches of a confirmed import *)

\* Number of batches chunked(docs, size) yields
NumBatches(n, size) == (n + size - 1) \div size

\* The import was confirmed and import_data is over
BulkImportOver == pc = "exit" /\ (Issued("update") \/ post_idx > 0)

\* C11: whatever subset of the batch uploads fails, every batch of
\* chunked(upload_docs, batch_size) is posted, once and in order, and
\* import_data returns normally.
C11_BatchFailureContinues ==
    /\ \A k \in 1..Len(UpdateRequests) :
          IdsOf(UpdateRequests[k].arg) = IdsOf(chunk(upload_docs, (k - 1) * imp_batch, imp_batch))
    /\ BulkImportOver =>
          /\ Len(UpdateRequests) = NumBatches(Len(upload_docs), imp_batch)
          /\ ~raised

\* Three batches of one document: the first upload refused, the second
\* answered 401, the third accepted
C11_Witness ==
    /\ BulkImportOver
    /\ Len(UpdateRequests) = 3
    /\ UpdateRequests[1].status = 500
    /\ UpdateRequests[2].status = 401
    /\ UpdateRequests[3].status = 200

\* C12: a request answered 401 is the last request of the run, and the run
\* ends in an error.
C12_AuthFailureFatal ==
    /\ \A k \in 1..Len(requests) : requests[k].status = 401 => k = Len(requests)
    /\ (Ended /\ \E k \in 1..Len(requests) : requests[k].status = 401) => raised

----------------------------------------------------------------------------
(* Reindex: the configuration that step 3 uploads *)

\* The configuration uploads issued so far, in order
ConfigUploads == SelectSeq(requests, LAMBDA q : q.op = "cfg_upload")

\* C13: in a run whose requests all succeeded: with a configuration path
\* supplied, no request of step 1 is issued and step 3 uploads the files found
\* at the supplied path; with none supplied, step 3 uploads the files step 1
\* wrote.
C13_UploadsSuppliedConfig ==
    (\A k \in 1..Len(requests) : requests[k].status = 200) =>
        /\ config_path = supplied_config =>
              /\ ~Issued("cfg_list")
              /\ ~Issued("cfg_file")
              /\ \A k \in 1..Len(ConfigUploads) :
                    ConfigUploads[k].arg.tree = LocalTree(files, supplied_config)
        /\ config_path # supplied_config =>
              \A k \in 1..Len(ConfigUploads) :
                  /\ 1 \in Range(stdout)
                  /\ ConfigUploads[k].arg.tree = LocalTree(files, cfg_dest)

\* C14: no configuration delete and no configuration upload names the
\* configuration the collection had when reindex started, the generated name
\* differs from it, and its files stay as they were.
C14_OriginalConfigUntouched ==
    config_name # << >> =>
        /\ new_config_name # config_name
        /\ \A k \in 1..Len(requests) :
              /\ requests[k].op = "cfg_delete" => requests[k].arg # config_name
              /\ requests[k].op = "cfg_upload" => requests[k].arg.name # config_name
        /\ config_name \in DOMAIN configsets
        /\ configsets[config_name] = TreeA

----------------------------------------------------------------------------
(* Reindex of a collection the cluster does not have *)

\* There was no collection when reindex started and the cluster status was
\* answered
StatusWithoutCollection ==
    /\ ~coll_exists
    /\ ~Issued("delete")
    /\ Len(requests) >= 1
    /\ requests[1].status = 200

\* C15: when the cluster status reports no collection of the target name,
\* reindex reports that the collection was not found and stops: the status
\* request stays its only request, no step completes, and the collection,
\* its documents and the configurations are as they were.
C15_NotFoundStopsReindex ==
    /\ StatusWithoutCollection => (not_found \/ (raised /\ Len(requests) = 1))
    /\ not_found =>
          /\ pc \in {"finally", "exit"}
          /\ Len(requests) = 1
          /\ requests[1].op = "cluster_status"
          /\ stdout = << >>
          /\ ~coll_exists
          /\ coll_docs = << >>
          /\ configsets = (coll_config :> TreeA)

\* Reindex without configuration path ended on a missing collection
C15_Witness == not_found /\ pc = "exit" /\ config_path = << >> /\ ~raised

----------------------------------------------------------------------------
(* The import-config command: any directory, with and without a name, with *)
(* and without overwrite, against any set of configurations                *)

ConfigNames == {<<"cfgA">>, <<"cfgB">>, supplied_config}

\* Local directories the command may be given
LocalDirs ==
    {<< >>,
     (supplied_config \o <<"schema">> :> "schemaB"),
     (supplied_config \o <<"schema">> :> "schemaB")
         @@ (supplied_config \o <<"lang", "stop">> :> "stopB")}

InitImportConfig ==
    /\ cmd = "import-config"
    /\ id_col = "id"
    /\ config_path = << >>
    /\ config_name = << >>
    /\ not_found = FALSE
    /\ cfg_dest = tmp_config_path
    /\ configs_path = supplied_config
    /\ cfg_name \in {<< >>, <<"cfgA">>, <<"cfgB">>}
    /\ cfg_overwrite \in BOOLEAN
    /\ pc = "import_configs"
    /\ raised = FALSE
    /\ stdout = << >>
    /\ clients = [importer |-> "open", exporter |-> "none"]
    /\ coll_exists \in BOOLEAN
    /\ coll_docs = << >>
    /\ coll_config = <<"cfgA">>
    /\ \E S \in SUBSET ConfigNames :
          /\ coll_exists => coll_config \in S
          /\ configsets = [n \in S |-> TreeA]
    /\ files \in LocalDirs
    /\ requests = << >>
    /\ in_flight = {}
    /\ written = << >>
    /\ batch_size = DefaultBatch
    /\ ids = << >>
    /\ from_idx = 0
    /\ data_docs = << >>
    /\ cfg_stack = << >>
    /\ imp_path = << >>
    /\ imp_batch = DefaultBatch
    /\ overwrite = TRUE
    /\ upload_docs = << >>
    /\ post_idx = 0
    /\ answers = << >>
    /\ self_collection = collection

NextImportConfig == import_configs \/ upload_config \/ Finally

SpecImportConfig == InitImportConfig /\ [][NextImportConfig]_vars

\* C16: with overwrite, an upload is issued only as the second request, after
\* a delete of the configuration of the same name that was answered with
\* success; with overwrite unset no delete is issued.
C16_DeleteBeforeUpload ==
    /\ cfg_overwrite =>
          \A k \in 1..Len(requests) :
              requests[k].op = "cfg_upload" =>
                  /\ k = 2
                  /\ requests[1].op = "cfg_delete"
                  /\ requests[1].status = 200
                  /\ requests[1].arg = requests[k].arg.name
    /\ ~cfg_overwrite => ~Issued("cfg_delete")
    /\ Answered("cfg_delete", FALSE) => (~Issued("cfg_upload") /\ raised)

\* An overwriting import whose delete and upload both went through
C16_Witness ==
    /\ cfg_overwrite
    /\ pc = "exit"
    /\ Len(requests) = 2
    /\ requests[1].op = "cfg_delete"
    /\ requests[2].op = "cfg_upload"
    /\ requests[2].status = 200

----------------------------------------------------------------------------
(* The export-config command: configurations nested up to two directories *)
(* deep, with files of the same name in different directories             *)

ConfigPaths ==
    {<<"schema">>, <<"lang", "stop">>, <<"lang", "en", "stop">>, <<"en", "stop">>, <<"logo">>}

ConfigContent(p) ==
    CASE p = <<"schema">> -> "schemaA"
      [] p = <<"lang", "stop">> -> "stopA"
      [] p = <<"lang", "en", "stop">> -> "stopLangEn"
      [] p = <<"en", "stop">> -> "stopEn"
      [] p = <<"logo">> -> "binary"

ConfigTrees == {[p \in S |-> ConfigContent(p)] : S \in SUBSET ConfigPaths}

InitExportConfig ==
    /\ cmd = "export-config"
    /\ id_col = "id"
    /\ config_path = << >>
    /\ config_name = << >>
    /\ not_found = FALSE
    /\ cfg_dest = tmp_config_path
    /\ configs_path = tmp_config_path
    /\ cfg_name = << >>
    /\ cfg_overwrite = FALSE
    /\ pc = "cfg_root"
    /\ raised = FALSE
    /\ stdout = << >>
    /\ clients = [importer |-> "none", exporter |-> "open"]
    /\ coll_exists \in BOOLEAN
    /\ coll_docs = << >>
    /\ coll_config = <<"cfgA">>
    /\ \E tree \in ConfigTrees : configsets = (<<"cfgA">> :> tree)
    /\ files = << >>
    /\ requests = << >>
    /\ in_flight = {}
    /\ written = << >>
    /\ batch_size = DefaultBatch
    /\ ids = << >>
    /\ from_idx = 0
    /\ data_docs = << >>
    /\ cfg_stack = << >>
    /\ imp_path = << >>
    /\ imp_batch = DefaultBatch
    /\ overwrite = TRUE
    /\ upload_docs = << >>
    /\ post_idx = 0
    /\ answers = << >>
    /\ self_collection = collection

NextExportConfig == export_config \/ parse_tree \/ Finally

SpecExportConfig == InitExportConfig /\ [][NextExportConfig]_vars

\* export_config returned its path
ConfigExported == pc = "exit" /\ ~raised

\* C17: every listing is requested by the full path of a directory of the
\* configuration, every file written under the destination at relative path p
\* holds the content of the remote file at p, and a finished export has
\* written every remote file.
C17_PathPrefixPreserved ==
    /\ \A k \in 1..Len(requests) :
          requests[k].op = "cfg_list" =>
              (requests[k].arg = << >> \/ IsDir(LiveTree, requests[k].arg))
    /\ \A p \in DOMAIN LocalTree(files, cfg_dest) :
          /\ p \in DOMAIN LiveTree
          /\ LocalTree(files, cfg_dest)[p] = LiveTree[p]
    /\ ConfigExported => DOMAIN LocalTree(files, cfg_dest) = DOMAIN LiveTree

\* C18: a listing or file request of the export that was not answered with
\* success is its last request, and the export ends with an error instead of
\* returning its path.
C18_ConfigFetchFatal ==
    \A k \in 1..Len(requests) :
        (requests[k].op \in {"cfg_list", "cfg_file"} /\ requests[k].status # 200) =>
            /\ k = Len(requests)
            /\ raised
            /\ pc \in {"finally", "exit"}

\* The fetch of a file was refused after another file had been written and
\* while entries were still to be fetched
C18_Witness ==
    /\ pc = "exit"
    /\ raised
    /\ Last(requests).op = "cfg_file"
    /\ Last(requests).status = 500
    /\ files # << >>
    /\ cfg_stack # << >>
    /\ (Len(Head(cfg_stack).todo) > 1 \/ Len(cfg_stack) > 1)

----------------------------------------------------------------------------
(* Round trip of a configuration: export-config, import-config of the     *)
(* exported directory under another name, export-config of a collection   *)
(* that uses the new configuration                                        *)

second_dir == <<"config2">>
round_name == <<"cfgB">>

InitRoundTrip ==
    /\ cmd = "export-config"
    /\ id_col = "id"
    /\ config_path = << >>
    /\ config_name = << >>
    /\ not_found = FALSE
    /\ cfg_dest = tmp_config_path
    /\ configs_path = tmp_config_path
    /\ cfg_name = << >>
    /\ cfg_overwrite = FALSE
    /\ pc = "cfg_root"
    /\ raised = FALSE
    /\ stdout = << >>
    /\ clients = [importer |-> "none", exporter |-> "open"]
    /\ coll_exists = TRUE
    /\ coll_docs = << >>
    /\ coll_config = <<"cfgA">>
    /\ \E tree \in ConfigTrees :
          configsets \in {(<<"cfgA">> :> tree), (<<"cfgA">> :> tree) @@ (round_name :> TreeA)}
    /\ files = << >>
    /\ requests = << >>
    /\ in_flight = {}
    /\ written = << >>
    /\ batch_size = DefaultBatch
    /\ ids = << >>
    /\ from_idx = 0
    /\ data_docs = << >>
    /\ cfg_stack = << >>
    /\ imp_path = << >>
    /\ imp_batch = DefaultBatch
    /\ overwrite = TRUE
    /\ upload_docs = << >>
    /\ post_idx = 0
    /\ answers = << >>
    /\ self_collection = collection

\* The operator runs the next command once the last one ended without error:
\* import-config of the exported directory under round_name, then, the
\* collection having been bound to the uploaded configuration, export-config
\* into a second directory
next_command ==
    /\ pc = "exit"
    /\ ~raised
    /\ \/ /\ cmd = "export-config"
          /\ cfg_dest = tmp_config_path
          /\ cmd' = "import-config"
          /\ configs_path' = cfg_dest
          /\ cfg_name' = round_name
          /\ cfg_overwrite' \in BOOLEAN
          /\ pc' = "import_configs"
          /\ clients' = [importer |-> "open", exporter |-> "none"]
          /\ UNCHANGED <<cfg_dest, coll_config>>
       \/ /\ cmd = "import-config"
          /\ Answered("cfg_upload", TRUE)
          /\ cmd' = "export-config"
          /\ cfg_dest' = second_dir
          /\ coll_config' = upload_name(configs_path, cfg_name)
          /\ pc' = "cfg_root"
          /\ clients' = [importer |-> "none", exporter |-> "open"]
          /\ UNCHANGED <<configs_path, cfg_name, cfg_overwrite>>
    /\ UNCHANGED <<config_path, config_name, not_found, id_col, answers, written, raised,
                   stdout, coll_exists, coll_docs, configsets, files, requests, exportVars,
                   cfg_stack, importVars>>

NextRoundTrip ==
    \/ export_config
    \/ parse_tree
    \/ import_configs
    \/ upload_config
    \/ Finally
    \/ next_command

SpecRoundTrip == InitRoundTrip /\ [][NextRoundTrip]_vars

\* The second export returned its path
RoundTripDone == cmd = "export-config" /\ cfg_dest = second_dir /\ ConfigExported

\* C19: after export, import under a new name and export of the new
\* configuration, the second directory holds the same relative paths with the
\* same content as the first.
C19_ConfigRoundTrip ==
    RoundTripDone => LocalTree(files, second_dir) = LocalTree(files, tmp_config_path)

\* A round trip of a configuration with a file at the root and one in a
\* directory
C19_Witness ==
    /\ RoundTripDone
    /\ {<<"schema">>, <<"lang", "stop">>} \subseteq DOMAIN LocalTree(files, second_dir)

----------------------------------------------------------------------------
(* Round trip of a snapshot: _export_to_path writes the documents it has  *)
(* fetched (nested ones included), import_data reads the file back        *)

\* _export_to_path after its last window, with any documents fetched
InitSnapshot ==
    /\ cmd = "export"
    /\ id_col = "id"
    /\ config_path = << >>
    /\ config_name = << >>
    /\ not_found = FALSE
    /\ cfg_dest = tmp_config_path
    /\ configs_path = tmp_config_path
    /\ cfg_name = << >>
    /\ cfg_overwrite = FALSE
    /\ pc = "exp_window"
    /\ raised = FALSE
    /\ stdout = << >>
    /\ clients = [importer |-> "none", exporter |-> "open"]
    /\ coll_exists = TRUE
    /\ coll_docs = << >>
    /\ coll_config = <<"cfgA">>
    /\ configsets = (<<"cfgA">> :> TreeA)
    /\ files = << >>
    /\ requests = << >>
    /\ in_flight = {}
    /\ written = << >>
    /\ batch_size \in 1..MaxBatch
    /\ \E n \in 0..MaxSnap : \E docs \in [1..n -> UNION {RichDocs(i) : i \in DocIds}] :
          /\ \A k \in 1..n : DocId(docs[k]) = k
          /\ data_docs = docs
          /\ ids = IdsOf(docs)
          /\ from_idx = batch_size * NumWindows(n, batch_size)
    /\ cfg_stack = << >>
    /\ imp_path = export_filepath(tmp_data_dir_path)
    /\ imp_batch = DefaultBatch
    /\ overwrite = TRUE
    /\ upload_docs = << >>
    /\ post_idx = 0
    /\ answers = << >>
    /\ self_collection = collection

\* The operator runs import on the file the export wrote
import_exported ==
    /\ pc = "exit"
    /\ cmd = "export"
    /\ ~raised
    /\ cmd' = "import"
    /\ pc' = "imp_load"
    /\ clients' = [importer |-> "open", exporter |-> "none"]
    /\ UNCHANGED <<config_path, config_name, not_found, paramVars, answers, written, raised, stdout,
                   clusterVars, files, requests, exportVars, cfg_stack, importVars>>

NextSnapshot ==
    \/ write_snapshot
    \/ Finally
    \/ import_exported
    \/ load_and_select
    \/ confirm_import
    \/ post_documents

SpecSnapshot == InitSnapshot /\ [][NextSnapshot]_vars

----------------------------------------------------------------------------
(* Export: failures of the id scan and of a window *)

\* C21: a failed id scan or window fetch is the last request of the export,
\* no snapshot file exists after it, and a snapshot file that exists holds
\* the documents of every window.
C21_NoPartialSnapshot ==
    /\ \A k \in 1..Len(requests) :
          (requests[k].op \in {"scan", "select"} /\ requests[k].status # 200) =>
              /\ k = Len(requests)
              /\ pc \in {"finally", "exit"}
              /\ ExportedPath \notin DOMAIN files
    /\ raised => ExportedPath \notin DOMAIN files
    /\ ExportedPath \in DOMAIN files =>
          /\ Len(DocsOf(load_json(files, ExportedPath))) = Len(ids)
          /\ Len(SelectRequests) = NumWindows(Len(ids), batch_size)

\* The second window of an export failed after the first had been fetched
C21_Witness ==
    /\ pc = "exit"
    /\ raised
    /\ Len(SelectRequests) = 2
    /\ SelectRequests[2].status = 500
    /\ Len(data_docs) > 0
    /\ ExportedPath \notin DOMAIN files

----------------------------------------------------------------------------
(* The commands that ask the operator before they change the cluster: import, *)
(* import-config and remove-config                                            *)

InitRemoveConfig ==
    /\ cmd = "remove-config"
    /\ id_col = "id"
    /\ config_path = << >>
    /\ config_name = << >>
    /\ not_found = FALSE
    /\ cfg_dest = tmp_config_path
    /\ configs_path = tmp_config_path
    /\ cfg_name \in ConfigNames
    /\ cfg_overwrite = FALSE
    /\ pc = "remove_config"
    /\ raised = FALSE
    /\ stdout = << >>
    /\ clients = [importer |-> "none", exporter |-> "none"]
    /\ coll_exists \in BOOLEAN
    /\ coll_docs = << >>
    /\ coll_config = <<"cfgA">>
    /\ \E S \in SUBSET ConfigNames :
          /\ coll_exists => coll_config \in S
          /\ configsets = [n \in S |-> TreeA]
    /\ files = << >>
    /\ requests = << >>
    /\ in_flight = {}
    /\ written = << >>
    /\ batch_size = DefaultBatch
    /\ ids = << >>
    /\ from_idx = 0
    /\ data_docs = << >>
    /\ cfg_stack = << >>
    /\ imp_path = << >>
    /\ imp_batch = DefaultBatch
    /\ overwrite = TRUE
    /\ upload_docs = << >>
    /\ post_idx = 0
    /\ answers = << >>
    /\ self_collection = collection

InitPrompt == InitImport \/ InitImportConfig \/ InitRemoveConfig

NextPrompt ==
    \/ load_and_select
    \/ confirm_import
    \/ post_documents
    \/ import_configs
    \/ upload_config
    \/ remove_config
    \/ Finally

SpecPrompt == InitPrompt /\ [][NextPrompt]_vars

\* Requests that change the cluster
Changing(k) == requests[k].op \in {"update", "cfg_delete", "cfg_upload"}

\* C22: once the operator has answered a prompt of import, import-config or
\* remove-config with anything but y, the command has issued no update, no
\* configuration delete and no configuration upload, and it ends without an
\* exception.
C22_DeclineIsNoOp ==
    (answers # << >> /\ answers[1] # "y") =>
        /\ \A k \in 1..Len(requests) : ~Changing(k)
        /\ pc \in {"finally", "exit"}
        /\ ~raised

\* remove-config was declined and has ended
C22_Witness ==
    /\ cmd = "remove-config"
    /\ answers = <<"n">>
    /\ pc = "exit"
    /\ requests = << >>
    /\ cfg_name \in DOMAIN configsets

----------------------------------------------------------------------------
(* Import with overwrite *)

\* C23: an import with overwrite issues no id scan; its upload list is the
\* whole docs list of the snapshot, duplicates included, whatever the
\* collection holds; and a confirmed import posts that list batch by batch, to
\* its last document.
C23_OverwriteSkipsDiff ==
    overwrite =>
        /\ ~Issued("scan")
        /\ (imp_path \in DOMAIN files /\ pc # "imp_load") =>
              LET snap == IdsOf(DocsOf(load_json(files, imp_path)))
              IN  /\ IdsOf(upload_docs) = snap
                  /\ \A k \in 1..Len(UpdateRequests) :
                        IdsOf(UpdateRequests[k].arg) =
                            SubSeq(snap, (k - 1) * imp_batch + 1, Min(k * imp_batch, Len(snap)))
                  /\ BulkImportOver =>
                        Len(UpdateRequests) = NumBatches(Len(snap), imp_batch)

\* A snapshot of three documents, two of them of one id, was imported with
\* overwrite in two batches that the cluster accepted
C23_Witness ==
    /\ overwrite
    /\ BulkImportOver
    /\ imp_path \in DOMAIN files
    /\ IdsOf(DocsOf(load_json(files, imp_path))) = <<1, 2, 1>>
    /\ Len(UpdateRequests) = 2
    /\ requests[1].op = "update"
    /\ \A k \in 1..Len(requests) : requests[k].status = 200

----------------------------------------------------------------------------
(* Exit status *)

\* C24: a command that ended on a fatal error (an exception of the operation,
\* or the collection of reindex not found) has a non-zero exit status, and a
\* command that ended without one has exit status zero.
C24_FatalExitsNonZero ==
    pc = "exit" => (exit_status # 0 <=> (raised \/ not_found))

----------------------------------------------------------------------------
(* Import of a snapshot file that lacks a key *)

\* The snapshot file of the ids a with the keys of gone left out
SnapshotLacking(a, gone) ==
    LET whole == snapshot_data(collection,
                     [k \in 1..Len(a) |-> Dict((id_col :> Val(a[k])) @@ ("_version_" :> Val(k)))])
    IN  dumps(Dict([k \in DOMAIN whole.v \ gone |-> whole.v[k]]))

InitLacking ==
    /\ InitImportCommon
    /\ id_col = "id"
    /\ coll_exists = TRUE
    /\ \E S \in SUBSET DocIds : coll_docs = SortAsc(S)
    /\ \E a \in SeqsUpTo(DocIds, 2) : \E gone \in SUBSET {"collection", "docs"} :
          files = (imp_path :> SnapshotLacking(a, gone))
    /\ imp_batch = MaxBatch
    /\ overwrite \in BOOLEAN
    /\ self_collection \in {"None", collection}

SpecLacking == InitLacking /\ [][NextImport]_vars

\* The snapshot file has been read and lacks its docs key or its collection key
LackingRead ==
    /\ pc # "imp_load"
    /\ imp_path \in DOMAIN files
    /\ {"collection", "docs"} \ DOMAIN load_json(files, imp_path).v # {}

\* C25: once a snapshot that lacks the docs key or the collection key has
\* been read, the import has ended in an exception and issues no update
\* request, with and without a target collection set by the caller.
C25_LackingKeyFatal ==
    LackingRead => (raised /\ pc \in {"finally", "exit"} /\ ~Issued("update"))

----------------------------------------------------------------------------
(* Reindex: what a halt reports *)

\* A step of reindex, a request after the cluster status, failed and the
\* command is over
HaltedByFailure == cmd = "reindex" /\ pc = "exit" /\ raised /\ Len(requests) > 1

\* C26: when reindex has halted because a step failed, its output names the
\* temporary data directory and the temporary config directory, and the
\* request that failed is the last one issued.
C26_HaltReportsRecoveryPaths ==
    HaltedByFailure =>
        /\ {tmp_data_dir_path, tmp_config_path} \subseteq paths_printed
        /\ \A k \in 1..Len(requests) : requests[k].status # 200 => k = Len(requests)

----------------------------------------------------------------------------
(* The exporter of the solrdumper package (src/solrdumper/export.py) *)

\* /select with q = "id:a OR id:b ..." and rows = len(ids): the stored
\* documents of these ids, in index order
IdQueryHandler(docs, batch_ids) ==
    LET hits == SelectSeq(docs, LAMBDA d : d \in Range(batch_ids))
    IN  [i \in 1..Len(hits) |-> StoredDoc(hits[i])]

\* The windows of "for from_idx in range(0, num_ids, batch_size)"
window_starts(num_ids, size) == {w \in 0..(num_ids - 1) : w % size = 0}

\* export_data of solrdumper: the id scan; None is a ValueError here
dumper_fetch_ids ==
    /\ pc = "dmp_scan"
    /\ \E r \in CollResponses(Responses) :
        /\ requests' = Append(requests, Req("scan", <<>>, r))
        /\ IF /\ api_request(r) = "text" /\ loads(r) = "parsed"
              /\ scan_ids(ExportHandler(coll_docs), id_col) = "ids"
           THEN /\ ids' = ExportHandler(coll_docs)
                /\ pc' = "dmp_tasks"
                /\ UNCHANGED raised
           ELSE /\ pc' = "finally"
                /\ raised' = TRUE
                /\ UNCHANGED ids
    /\ UNCHANGED <<ctlVars, stdout, clients, clusterVars, files, batch_size, from_idx,
                   data_docs, in_flight, cfg_stack, importVars>>

\* _export_ids: one _get_documents coroutine per window is put into tasks and
\* as_completed(tasks) schedules them all; each runs up to the await of its
\* request, so the requests of all the windows are out before any answer is
\* looked at
dumper_as_completed ==
    /\ pc = "dmp_tasks"
    /\ in_flight' = window_starts(Len(ids), batch_size)
    /\ pc' = "dmp_await"
    /\ UNCHANGED <<ctlVars, raised, stdout, clients, clusterVars, files, requests,
                   batch_size, ids, from_idx, data_docs, cfg_stack, importVars>>

\* batch_data = await r: the answer to one of the outstanding requests, in
\* whatever order the answers come; a failed one raises out of _export_ids
\* and leaves the others outstanding
dumper_get_documents ==
    /\ pc = "dmp_await"
    /\ \E w \in in_flight : \E r \in CollResponses(Responses) :
        LET batch_ids == chunk(ids, w, batch_size)
        IN  /\ requests' = Append(requests, Req("select_ids", batch_ids, r))
            /\ in_flight' = in_flight \ {w}
            /\ IF api_request(r) = "text" /\ loads(r) = "parsed"
               THEN /\ data_docs' = data_docs \o IdQueryHandler(coll_docs, batch_ids)
                    /\ UNCHANGED <<pc, raised>>
               ELSE /\ pc' = "finally"
                    /\ raised' = TRUE
                    /\ UNCHANGED data_docs
    /\ UNCHANGED <<ctlVars, stdout, clients, clusterVars, files, batch_size, ids,
                   from_idx, cfg_stack, importVars>>

\* after the loop over as_completed: the snapshot is written
dumper_write ==
    /\ pc = "dmp_await"
    /\ in_flight = {}
    /\ written = << >>
    /\ files' = WriteFile(files, export_filepath(tmp_data_dir_path),
                          Snapshot(collection, data_docs))
    /\ pc' = "finally"
    /\ UNCHANGED <<ctlVars, raised, stdout, clients, clusterVars, requests, exportVars,
                   cfg_stack, importVars>>

InitDumper ==
    /\ cmd = "export"
    /\ id_col = "id"
    /\ config_path = << >>
    /\ config_name = << >>
    /\ not_found = FALSE
    /\ cfg_dest = tmp_config_path
    /\ configs_path = tmp_config_path
    /\ cfg_name = << >>
    /\ cfg_overwrite = FALSE
    /\ pc = "dmp_scan"
    /\ raised = FALSE
    /\ stdout = << >>
    /\ clients = [importer |-> "none", exporter |-> "open"]
    /\ coll_exists \in BOOLEAN
    /\ \E S \in SUBSET DocIds : coll_docs \in Perms(S)
    /\ coll_config = <<"cfgA">>
    /\ configsets = (<<"cfgA">> :> TreeA)
    /\ files = << >>
    /\ requests = << >>
    /\ in_flight = {}
    /\ written = << >>
    /\ batch_size \in 1..MaxBatch
    /\ ids = << >>
    /\ from_idx = 0
    /\ data_docs = << >>
    /\ cfg_stack = << >>
    /\ imp_path = << >>
    /\ imp_batch = DefaultBatch
    /\ overwrite = TRUE
    /\ upload_docs = << >>
    /\ post_idx = 0
    /\ answers = << >>
    /\ self_collection = collection

NextDumper ==
    \/ dumper_fetch_ids
    \/ dumper_as_completed
    \/ dumper_get_documents
    \/ dumper_write
    \/ Finally

SpecDumper == InitDumper /\ [][NextDumper]_vars

\* C27: at every moment at most one request awaits its answer.
C27_OneRequestInFlight == Cardinality(in_flight) <= 1

----------------------------------------------------------------------------
(* A non-overwrite import with another client writing to the collection *)

\* The other client adds a document or deletes one, at any moment between
\* the answer to the id scan and the end of the batch loop; its write is
\* logged with the number of requests the import had issued by then
writer ==
    /\ pc \in {"imp_confirm", "imp_post"}
    /\ coll_exists
    /\ Len(written) < MaxWrites
    /\ \E i \in DocIds :
          IF i \in Range(coll_docs)
          THEN /\ coll_docs' = SelectSeq(coll_docs, LAMBDA d : d # i)
               /\ written' = Append(written, [op |-> "delete", id |-> i, at |-> Len(requests)])
          ELSE /\ coll_docs' = Append(coll_docs, i)
               /\ written' = Append(written, [op |-> "add", id |-> i, at |-> Len(requests)])
    /\ UNCHANGED <<cmdVars, answers, pc, raised, stdout, clients, coll_exists, coll_config,
                   configsets, files, requests, exportVars, cfg_stack, importVars>>

InitWriter ==
    /\ InitImportCommon
    /\ id_col = "id"
    /\ self_collection = collection
    /\ coll_exists = TRUE
    /\ \E S \in SUBSET DocIds : coll_docs = SortAsc(S)
    /\ \E S \in SUBSET DocIds : files = (imp_path :> SnapshotOfIds(SortAsc(S)))
    /\ imp_batch \in 1..MaxBatch
    /\ overwrite = FALSE

NextWriter == NextImport \/ writer

SpecWriter == InitWriter /\ [][NextWriter]_vars

\* The ids of the snapshot file
SnapshotIds == Range(IdsOf(DocsOf(load_json(files, imp_path))))

\* The import is over without an exception, it was not declined, and the
\* cluster accepted its scan and every batch
AcceptedImportOver ==
    /\ pc = "exit"
    /\ ~raised
    /\ "n" \notin Range(answers)
    /\ \A k \in 1..Len(requests) : requests[k].status = 200

\* Document i was posted in some batch
Posted(i) == \E k \in 1..Len(UpdateRequests) : i \in Range(IdsOf(UpdateRequests[k].arg))

\* Document i of the snapshot is not in the collection and was never posted
Missed(i) == i \in SnapshotIds /\ i \notin Range(coll_docs) /\ ~Posted(i)

\* The other client added document i and a later batch posted i over it
UploadedOver(i) ==
    \E j \in 1..Len(written) : \E k \in 1..Len(requests) :
        /\ written[j].op = "add" /\ written[j].id = i
        /\ k > written[j].at
        /\ requests[k].op = "update" /\ i \in Range(IdsOf(requests[k].arg))

\* C28: the import scans the collection once and never again, so its upload
\* list is that of the moment of the scan: at the end of an accepted import a
\* snapshot document can be missing from the collection without having been
\* posted, but only a document the other client deleted after the scan.
C28_DiffNotTransactional ==
    /\ Count("scan") <= 1
    /\ AcceptedImportOver =>
          \A i \in DocIds :
              Missed(i) => \E j \in 1..Len(written) :
                               written[j].op = "delete" /\ written[j].id = i

\* One import in which both happened: a snapshot document the other client
\* deleted after the scan is missing and was never posted, and a document
\* the other client added was posted over
C28_Witness ==
    /\ AcceptedImportOver
    /\ \E i \in DocIds : Missed(i)
    /\ \E i \in DocIds : UploadedOver(i)

----------------------------------------------------------------------------
(* Reindex: the file of step 2 and the file of step 6 *)

\* C29: when step 6 of reindex is about to read its snapshot and step 2 has
\* stored the export, the path step 6 was given is the path of that file.
C29_ImportReadsExportedFile ==
    (cmd = "reindex" /\ pc = "imp_load" /\ ExportedPath \in DOMAIN files) =>
        imp_path = ExportedPath

----------------------------------------------------------------------------
(* Reindex: the confirmation of step 3 declined *)

\* C30: in a reindex whose first prompt, that of the config import of step 3,
\* was answered with anything but y, no configuration upload, no
\* delete-collection and no create-collection request is issued.
C30_DeclinedStopsReindex ==
    (cmd = "reindex" /\ answers # << >> /\ answers[1] # "y") =>
        /\ ~Issued("cfg_upload")
        /\ ~Issued("delete")
        /\ ~Issued("create")

----------------------------------------------------------------------------
(* The statuses api_request takes for a failure *)

\* C31: a configuration upload that the cluster answered with a 2xx status
\* is not reported as failed: import_configs does not raise after it.
C31_SuccessStatusNotFailure ==
    (requests # << >> /\ Last(requests).op = "cfg_upload"
        /\ Success(Last(requests).status)) => ~raised

----------------------------------------------------------------------------
(* Export: what a failed id scan looks like to the caller *)

\* C32: an export whose id scan was not answered with a success has ended in
\* an exception, and an export whose id scan matched no document has not.
C32_ScanFailureSurfaces ==
    (cmd = "export" /\ requests # << >> /\ requests[1].op = "scan") =>
        /\ ~Success(requests[1].status) => raised
        /\ (Success(requests[1].status) /\ coll_docs = << >> /\ pc = "exit"
               /\ ExportedPath \in DOMAIN files) => ~raised

----------------------------------------------------------------------------
(* Non-overwrite import under an id field of another name *)

\* Names the id field may be configured with
IdFields == {"id", "uid"}

InitIdField ==
    /\ InitImportCommon
    /\ id_col \in IdFields
    /\ self_collection = collection
    /\ coll_exists = TRUE
    /\ \E S \in SUBSET DocIds : coll_docs = SortAsc(S)
    /\ \E a \in SeqsUpTo(DocIds, MaxSnap) : files = (imp_path :> SnapshotOfIds(a))
    /\ imp_batch = MaxBatch
    /\ overwrite = FALSE

SpecIdField == InitIdField /\ [][NextImport]_vars

\* C33: under every id field f, a scan of the live collection that the
\* cluster answered with its ids gives the diff step the values of f of the
\* collection's documents: the import does not fail on it, and what it selects
\* is the first snapshot document of every id, taken under f, that the
\* collection lacks.
C33_ScanUnderIdField ==
    (requests # << >> /\ requests[1].op = "scan"
        /\ requests[1].status = 200 /\ requests[1].body = "json") =>
        LET A == DocsOf(load_json(files, imp_path))
            B == Range(coll_docs)
        IN  /\ ~raised
            /\ Len(requests) = 1 =>
                  /\ Range(IdsOf(upload_docs)) = Range(IdsOf(A)) \ B
                  /\ NoDup(IdsOf(upload_docs))

----------------------------------------------------------------------------
(* Import: the collection the uploads go to *)

\* Collection names a snapshot may carry and a caller may set
CollectionNames == {collection, "D"}

InitTarget ==
    /\ InitImportCommon
    /\ id_col = "id"
    /\ self_collection \in CollectionNames \cup {"None"}
    /\ coll_exists = TRUE
    /\ \E S \in SUBSET DocIds : coll_docs = SortAsc(S)
    /\ \E c \in CollectionNames : \E S \in SUBSET DocIds :
          files = (imp_path :> Snapshot(c, [k \in 1..Cardinality(S) |-> StoredDoc(SortAsc(S)[k])]))
    /\ imp_batch \in 1..MaxBatch
    /\ overwrite \in BOOLEAN

SpecTarget == InitTarget /\ [][NextImport]_vars

\* The collection the snapshot file names
SnapshotCollection == load_json(files, imp_path).v["collection"].v

\* C34: a target collection the caller has set never changes; an unset one
\* becomes, when the snapshot is read, the collection the snapshot names; and
\* every update request goes to the target collection as it then is.
C34_TargetCollection ==
    /\ [](\A k \in 1..Len(UpdateRequests) : UpdateRequests[k].to = self_collection)
    /\ [][/\ self_collection # "None" => self_collection' = self_collection
          /\ (self_collection = "None" /\ pc = "imp_load" /\ pc' # "imp_load")
                => self_collection' = SnapshotCollection]_vars

\* A caller who set C imported a snapshot that names D, and a batch was
\* posted to C and accepted
C34_Witness ==
    /\ self_collection = collection
    /\ SnapshotCollection = "D"
    /\ UpdateRequests # << >>
    /\ UpdateRequests[1].to = collection
    /\ UpdateRequests[1].status = 200

----------------------------------------------------------------------------
(* Export of a collection without documents *)

\* C35: an export whose id scan was answered with no id issues no
\* document-window fetch, and when it is over it has written a snapshot file
\* whose docs sequence is empty.
C35_EmptyExport ==
    (cmd = "export" /\ requests # << >> /\ requests[1].op = "scan"
        /\ requests[1].status = 200 /\ requests[1].body = "json"
        /\ coll_docs = << >>) =>
        /\ SelectRequests = << >>
        /\ ~raised
        /\ pc = "exit" =>
              /\ ExportedPath \in DOMAIN files
              /\ DocsOf(load_json(files, ExportedPath)) = << >>

\* The export of an empty collection is over and its snapshot is on disk
C35_Witness ==
    /\ cmd = "export"
    /\ pc = "exit"
    /\ requests # << >>
    /\ requests[1].status = 200
    /\ coll_exists /\ coll_docs = << >>
    /\ ExportedPath \in DOMAIN files

----------------------------------------------------------------------------
(* Non-overwrite import: a failed scan of the live collection *)

\* C36: in a non-overwrite import, a scan of the live ids that was not
\* answered with a success that parses is the last request: the import has
\* ended in an exception, the operator was asked nothing and no update
\* request was issued.
C36_FailedScanAbortsImport ==
    (~overwrite /\ requests # << >> /\ requests[1].op = "scan"
        /\ ~(requests[1].status = 200 /\ requests[1].body = "json")) =>
        /\ Len(requests) = 1
        /\ raised
        /\ pc \in {"finally", "exit"}
        /\ answers = << >>
        /\ upload_docs = << >>

\* The scan of a collection that lacks documents of the snapshot was answered
\* 500, and the import is over
C36_Witness ==
    /\ ~overwrite
    /\ pc = "exit"
    /\ Len(requests) = 1
    /\ requests[1].op = "scan"
    /\ requests[1].status = 500
    /\ Range(IdsOf(DocsOf(load_json(files, imp_path)))) \ Range(coll_docs) # {}

----------------------------------------------------------------------------
(* The HTTP sessions at the end of a command *)

\* C37: when a command is over, however it ended, no session that it built
\* is still open.
C37_ClientsClosed ==
    pc = "exit" => \A k \in DOMAIN clients : clients[k] # "open"

\* Reindex built both sessions, a step after the cluster status failed, and
\* both sessions are closed
C37_Witness ==
    /\ cmd = "reindex"
    /\ pc = "exit"
    /\ raised
    /\ Len(requests) > 1
    /\ Last(requests).status = 500
    /\ clients = [importer |-> "closed", exporter |-> "closed"]

----------------------------------------------------------------------------
(* Bulk import: the batches as a partition of the selected documents *)

\* The ids of the posted batches, in posting order
BatchIds == [k \in 1..Len(UpdateRequests) |-> IdsOf(UpdateRequests[k].arg)]

RECURSIVE Concat(_)
Concat(ss) == IF ss = << >> THEN << >> ELSE Head(ss) \o Concat(Tail(ss))

\* The positions of the selected sequence that batch k covers
BatchPositions(k) ==
    LET before == Len(Concat(SubSeq(BatchIds, 1, k - 1)))
    IN  (before + 1)..(before + Len(BatchIds[k]))

\* C38: every posted batch holds between 1 and batch_size documents; the
\* batches posted so far, concatenated in posting order, are the selected
\* sequence up to the documents posted; every position of the selected
\* sequence that was posted lies in exactly one batch; and when the bulk
\* import is over the concatenation is the whole selected sequence.
C38_BatchesPartitionSelection ==
    /\ \A k \in 1..Len(BatchIds) : Len(BatchIds[k]) \in 1..imp_batch
    /\ Concat(BatchIds) = SubSeq(IdsOf(upload_docs), 1, post_idx)
    /\ \A i \in 1..post_idx :
          Cardinality({k \in 1..Len(BatchIds) : i \in BatchPositions(k)}) = 1
    /\ BulkImportOver => Concat(BatchIds) = IdsOf(upload_docs)

\* Three selected documents with batch size 2: a batch of two, then a batch
\* of one
C38_Witness ==
    /\ BulkImportOver
    /\ imp_batch = 2
    /\ Len(upload_docs) = 3
    /\ Len(BatchIds) = 2
    /\ Len(BatchIds[1]) = 2
    /\ Len(BatchIds[2]) = 1

====
